---- MODULE Spec2Model ----
\* PixShop: the Gemini image service (services/geminiService.ts) and its
\* localized copy bundled in components/ApiKeyModal.tsx.
\*
\* Strings are sequences of characters (one-character TLA+ strings); a long
\* literal of the source is written as one element holding the whole literal.
\* An optional JavaScript value is a sequence of length 0 (undefined) or 1.
EXTENDS Integers, Sequences, FiniteSets, TLC

VARIABLES
    envKey,             \* window.process.env.API_KEY
    inv,                \* the invocations of the exported operations
    file,               \* encoder: the File handed to fileToPart
    dataUrl,            \* encoder: reader.result
    originalImagePart,  \* encoder: what fileToPart settled with
    response,           \* interpreter: the GenerateContentResponse
    context,            \* interpreter: the context tag
    returned            \* interpreter: what handleApiResponse did

vars == <<envKey, inv, file, dataUrl, originalImagePart, response, context, returned>>

opVars == <<envKey, inv>>
encoderVars == <<file, dataUrl, originalImagePart>>
interpreterVars == <<response, context, returned>>

-----------------------------------------------------------------------------
\* Bounds of the model.

MaxUrlLen == 3
MaxMimeLen == 2
MaxFileBytes == 2
MaxParts == 2
MaxCandidates == 2
MaxTextLen == 2
NumInv == 2

-----------------------------------------------------------------------------
\* JavaScript values.

None == <<>>
Some(x) == <<x>>
IsSome(o) == o # <<>>
Get(o) == o[1]

\* Truthiness of an optional string: undefined and '' are falsy.
Truthy(o) == IsSome(o) /\ Get(o) # <<>>

\* What a template literal renders for an optional string.
Render(o) == IF IsSome(o) THEN Get(o) ELSE <<"u", "n", "d", "e", "f", "i", "n", "e", "d">>

\* A settled promise / a completed call.
Return(v) == [tag |-> "return", value |-> v]
Throw(v) == [tag |-> "throw", value |-> v]
Pending == [tag |-> "pending", value |-> <<>>]

SeqsUpTo(S, n) == UNION {[1..k -> S] : k \in 0..n}

\* String.prototype.split with a one-character separator.
RECURSIVE SplitFrom(_, _, _, _)
SplitFrom(s, sep, i, cur) ==
    IF i > Len(s) THEN <<cur>>
    ELSE IF s[i] = sep THEN <<cur>> \o SplitFrom(s, sep, i + 1, <<>>)
    ELSE SplitFrom(s, sep, i + 1, Append(cur, s[i]))

Split(s, sep) == SplitFrom(s, sep, 1, <<>>)

WhiteSpace == {" ", "\n", "\t"}

\* String.prototype.trim.
RECURSIVE TrimStart(_)
TrimStart(s) == IF s # <<>> /\ Head(s) \in WhiteSpace THEN TrimStart(Tail(s)) ELSE s

RECURSIVE TrimEnd(_)
TrimEnd(s) ==
    IF s # <<>> /\ s[Len(s)] \in WhiteSpace THEN TrimEnd(SubSeq(s, 1, Len(s) - 1)) ELSE s

Trim(s) == TrimEnd(TrimStart(s))

\* arr[0].match(/:(.*?);/): the capture group of the leftmost match, if any.
\* '.' matches every character but a line terminator; '*?' is lazy, so the
\* group ends at the first ';' after the ':'.
MatchAt(s, i) ==
    /\ s[i] = ":"
    /\ \E j \in (i + 1)..Len(s) :
          /\ s[j] = ";"
          /\ \A k \in (i + 1)..(j - 1) : s[k] # ";" /\ s[k] # "\n"

MimeMatch(s) ==
    IF \E i \in 1..Len(s) : MatchAt(s, i)
    THEN LET i == CHOOSE i \in 1..Len(s) : MatchAt(s, i) /\ \A h \in 1..(i - 1) : ~MatchAt(s, h)
             j == CHOOSE j \in (i + 1)..Len(s) : s[j] = ";" /\ \A k \in (i + 1)..(j - 1) : s[k] # ";"
         IN  Some(SubSeq(s, i + 1, j - 1))
    ELSE None

-----------------------------------------------------------------------------
\* FileReader.readAsDataURL: 'data:<type>;base64,<base64 of the bytes>'.

B64Alphabet ==
    <<"A", "B", "C", "D", "E", "F", "G", "H", "I", "J", "K", "L", "M",
      "N", "O", "P", "Q", "R", "S", "T", "U", "V", "W", "X", "Y", "Z",
      "a", "b", "c", "d", "e", "f", "g", "h", "i", "j", "k", "l", "m",
      "n", "o", "p", "q", "r", "s", "t", "u", "v", "w", "x", "y", "z",
      "0", "1", "2", "3", "4", "5", "6", "7", "8", "9", "+", "/">>

B64Char(n) == B64Alphabet[n + 1]

RECURSIVE Base64Encode(_)
Base64Encode(bytes) ==
    IF Len(bytes) = 0 THEN <<>>
    ELSE IF Len(bytes) = 1 THEN
        <<B64Char(bytes[1] \div 4), B64Char((bytes[1] % 4) * 16), "=", "=">>
    ELSE IF Len(bytes) = 2 THEN
        <<B64Char(bytes[1] \div 4),
          B64Char((bytes[1] % 4) * 16 + bytes[2] \div 16),
          B64Char((bytes[2] % 16) * 4), "=">>
    ELSE
        <<B64Char(bytes[1] \div 4),
          B64Char((bytes[1] % 4) * 16 + bytes[2] \div 16),
          B64Char((bytes[2] % 16) * 4 + bytes[3] \div 64),
          B64Char(bytes[3] % 64)>> \o Base64Encode(SubSeq(bytes, 4, Len(bytes)))

B64Value(c) == (CHOOSE n \in 1..64 : B64Alphabet[n] = c) - 1

\* atob: the bytes a base64 string stands for.
RECURSIVE Base64Decode(_)
Base64Decode(s) ==
    IF Len(s) < 4 THEN <<>>
    ELSE LET a == B64Value(s[1])
             b == B64Value(s[2])
             rest == Base64Decode(SubSeq(s, 5, Len(s)))
         IN  IF s[3] = "=" THEN <<a * 4 + b \div 16>>
             ELSE IF s[4] = "=" THEN
                 <<a * 4 + b \div 16, (b % 16) * 16 + B64Value(s[3]) \div 4>>
             ELSE <<a * 4 + b \div 16,
                    (b % 16) * 16 + B64Value(s[3]) \div 4,
                    (B64Value(s[3]) % 4) * 64 + B64Value(s[4])>> \o rest

ReadAsDataURL(f) ==
    <<"d", "a", "t", "a", ":">> \o f.type
        \o <<";", "b", "a", "s", "e", "6", "4", ",">> \o Base64Encode(f.bytes)

-----------------------------------------------------------------------------
\* fileToPart, after the read has settled with dataUrl.

\* if (!mimeMatch || !mimeMatch[1])
MimeMissingNullOnly(mimeMatch) == ~IsSome(mimeMatch)

MimeMissing(mimeMatch) == ~Truthy(mimeMatch)

\* const data = arr[1]  (JavaScript counts from 0)
DataOfFirst(arr) == arr[1]

DataOf(arr) == arr[2]

fileToPart(url) ==
    LET arr == Split(url, ",")
    IN  IF Len(arr) < 2 THEN Throw(<<"URL de dados inválida">>)
        ELSE LET mimeMatch == MimeMatch(arr[1])
             IN  IF MimeMissing(mimeMatch)
                 THEN Throw(<<"Não foi possível extrair o tipo MIME da URL de dados">>)
                 ELSE Return([inlineData |-> [mimeType |-> Get(mimeMatch), data |-> DataOf(arr)]])

-----------------------------------------------------------------------------
\* handleApiResponse.

contextMap ==
    [edit |-> <<"edição">>, filter |-> <<"filtro">>, adjustment |-> <<"ajuste">>]

translatedContext(ctx) == IF ctx \in DOMAIN contextMap THEN contextMap[ctx] ELSE <<ctx>>

\* response.candidates?.[0]
FirstCandidate(resp) ==
    IF IsSome(resp.candidates) /\ Len(Get(resp.candidates)) > 0
    THEN Some(Get(resp.candidates)[1])
    ELSE None

\* response.candidates?.[0]?.content?.parts
LastParts(resp) ==
    IF IsSome(resp.candidates) /\ Len(Get(resp.candidates)) > 0
          /\ IsSome(Get(resp.candidates)[Len(Get(resp.candidates))].content)
    THEN Get(Get(resp.candidates)[Len(Get(resp.candidates))].content).parts
    ELSE None

FirstParts(resp) ==
    LET c == FirstCandidate(resp)
    IN  IF IsSome(c) /\ IsSome(Get(c).content) THEN Get(Get(c).content).parts ELSE None

\* parts?.find(part => part.inlineData)
FindLastInlineData(parts) ==
    IF IsSome(parts) /\ \E n \in 1..Len(Get(parts)) : IsSome(Get(parts)[n].inlineData)
    THEN LET n == CHOOSE n \in 1..Len(Get(parts)) :
                      /\ IsSome(Get(parts)[n].inlineData)
                      /\ \A m \in (n + 1)..Len(Get(parts)) : ~IsSome(Get(parts)[m].inlineData)
         IN  Some(Get(parts)[n])
    ELSE None

FindInlineData(parts) ==
    IF IsSome(parts) /\ \E n \in 1..Len(Get(parts)) : IsSome(Get(parts)[n].inlineData)
    THEN LET n == CHOOSE n \in 1..Len(Get(parts)) :
                      /\ IsSome(Get(parts)[n].inlineData)
                      /\ \A m \in 1..(n - 1) : ~IsSome(Get(parts)[m].inlineData)
         IN  Some(Get(parts)[n])
    ELSE None

imagePartFromResponse(resp) == FindInlineData(FirstParts(resp))

\* response.candidates?.[0]?.finishReason
finishReason(resp) ==
    LET c == FirstCandidate(resp) IN IF IsSome(c) THEN Get(c).finishReason ELSE None

\* response.text?.trim()
textFeedbackUntrimmed(resp) == resp.text

textFeedback(resp) == IF IsSome(resp.text) THEN Some(Trim(Get(resp.text))) ELSE None

BlockedText == "A solicitação foi bloqueada. Motivo: "
StoppedText == "A geração de imagem para "
NoImageText == "O modelo de IA não retornou uma imagem para o(a) "
GenericText == "Isso pode acontecer devido a filtros de segurança ou se a solicitação for muito complexa. Tente reformular seu comando para ser mais direto."
DataUriHead == <<"d", "a", "t", "a", ":">>
DataUriMid == <<";", "b", "a", "s", "e", "6", "4", ",">>

\* if (response.promptFeedback?.blockReason)
IsBlockedUnlessImage(resp) ==
    /\ IsSome(resp.promptFeedback)
    /\ Truthy(Get(resp.promptFeedback).blockReason)
    /\ ~IsSome(imagePartFromResponse(resp))

IsBlocked(resp) ==
    IsSome(resp.promptFeedback) /\ Truthy(Get(resp.promptFeedback).blockReason)

\* if (finishReason && finishReason !== 'STOP')
AbnormalFinishUnlessText(resp) ==
    /\ Truthy(finishReason(resp))
    /\ Get(finishReason(resp)) # <<"STOP">>
    /\ ~Truthy(textFeedback(resp))

AbnormalFinish(resp) ==
    Truthy(finishReason(resp)) /\ Get(finishReason(resp)) # <<"STOP">>

handleApiResponseKnownContext(resp, ctx) ==
    IF IsBlocked(resp)
    THEN LET pf == Get(resp.promptFeedback)
         IN  Throw(<<BlockedText>> \o Get(pf.blockReason) \o <<".", " ">>
                   \o (IF Truthy(pf.blockReasonMessage) THEN Get(pf.blockReasonMessage) ELSE <<>>))
    ELSE IF IsSome(imagePartFromResponse(resp))
    THEN LET inlineData == Get(Get(imagePartFromResponse(resp)).inlineData)
         IN  Return(DataUriHead \o Render(inlineData.mimeType) \o DataUriMid
                    \o Render(inlineData.data))
    ELSE IF AbnormalFinish(resp) /\ ctx \in DOMAIN contextMap
    THEN Throw(<<StoppedText>> \o translatedContext(ctx)
               \o <<" parou inesperadamente. Motivo: ">> \o Get(finishReason(resp))
               \o <<". Isso geralmente está relacionado às configurações de segurança.">>)
    ELSE Throw(<<NoImageText>> \o translatedContext(ctx) \o <<".", " ">>
               \o (IF Truthy(textFeedback(resp))
                   THEN <<"O modelo respondeu com o texto: ", "\"">>
                        \o Get(textFeedback(resp)) \o <<"\"">>
                   ELSE <<GenericText>>))

handleApiResponse(resp, ctx) ==
    IF IsBlocked(resp)
    THEN LET pf == Get(resp.promptFeedback)
         IN  Throw(<<BlockedText>> \o Get(pf.blockReason) \o <<".", " ">>
                   \o (IF Truthy(pf.blockReasonMessage) THEN Get(pf.blockReasonMessage) ELSE <<>>))
    ELSE IF IsSome(imagePartFromResponse(resp))
    THEN LET inlineData == Get(Get(imagePartFromResponse(resp)).inlineData)
         IN  Return(DataUriHead \o Render(inlineData.mimeType) \o DataUriMid
                    \o Render(inlineData.data))
    ELSE IF AbnormalFinish(resp)
    THEN Throw(<<StoppedText>> \o translatedContext(ctx)
               \o <<" parou inesperadamente. Motivo: ">> \o Get(finishReason(resp))
               \o <<". Isso geralmente está relacionado às configurações de segurança.">>)
    ELSE Throw(<<NoImageText>> \o translatedContext(ctx) \o <<".", " ">>
               \o (IF Truthy(textFeedback(resp))
                   THEN <<"O modelo respondeu com o texto: ", "\"">>
                        \o Get(textFeedback(resp)) \o <<"\"">>
                   ELSE <<GenericText>>))

-----------------------------------------------------------------------------
\* The inputs of the encoder.

UrlChars == {"d", ":", ";", ",", "\n"}
MimeChars == {"i", ":", ";", ","}
ByteValues == {0, 77, 255}

Files == [type : SeqsUpTo(MimeChars, MaxMimeLen), bytes : SeqsUpTo(ByteValues, MaxFileBytes)]

DataUrls == SeqsUpTo(UrlChars, MaxUrlLen) \cup {ReadAsDataURL(f) : f \in Files}

NoFile == [type |-> <<>>, bytes |-> <<>>]

\* The inputs of the interpreter.

Mimes == {<<"i", "/", "p">>, <<"i", "/", "j">>}
Datas == {<<"Q", "Q", "=", "=">>}
BlockReasons == {<<"SAFETY">>}
BlockMessages == {<<"m">>}
FinishReasons == {<<"STOP">>, <<"SAFETY">>}
TextChars == {" ", "a"}
Contexts == {"edit", "filter", "adjustment", "other"}

InlineDatas == [mimeType : {None} \cup {Some(m) : m \in Mimes},
                data : {None} \cup {Some(d) : d \in Datas}]

Parts == {[inlineData |-> None, text |-> Some(<<"a">>)]}
             \cup {[inlineData |-> Some(d), text |-> None] : d \in InlineDatas}

Contents == {None} \cup {Some([parts |-> None])}
                \cup {Some([parts |-> Some(ps)]) : ps \in SeqsUpTo(Parts, MaxParts)}

Candidates == [content : Contents, finishReason : {None} \cup {Some(r) : r \in FinishReasons}]

\* Candidates after the first: one holding a complete image, one holding none.
LaterCandidates ==
    {[content |-> Some([parts |-> Some(<<[inlineData |-> Some([mimeType |-> Some(<<"i", "/", "j">>),
                                                              data |-> Some(<<"Q", "Q", "=", "=">>)]),
                                          text |-> None]>>)]),
      finishReason |-> Some(<<"STOP">>)],
     [content |-> None, finishReason |-> Some(<<"SAFETY">>)]}

CandidateLists ==
    {None, Some(<<>>)}
        \cup {Some(<<c>> \o rest) : c \in Candidates, rest \in SeqsUpTo(LaterCandidates, MaxCandidates - 1)}

PromptFeedbacks ==
    {None} \cup {Some(pf) : pf \in [blockReason : {None} \cup {Some(r) : r \in BlockReasons},
                                    blockReasonMessage : {None} \cup {Some(m) : m \in BlockMessages}]}

Responses == [promptFeedback : PromptFeedbacks,
              candidates : CandidateLists,
              text : {None} \cup {Some(t) : t \in SeqsUpTo(TextChars, MaxTextLen)}]

NoResponse == [promptFeedback |-> None, candidates |-> None, text |-> None]

-----------------------------------------------------------------------------
\* The exported operations.  An invocation runs synchronously up to its first
\* await (the file read), resumes when the read settles, runs up to the
\* second await (the request), and resumes when the request settles.

ModelId == "gemini-2.5-flash-image-preview"
MissingKeyText == "An API Key must be set when running in a browser."
ClientErrorText == "GoogleGenAI: the constructor threw"
ReadErrorText == "FileReader: error event"
RequestErrorText == "generateContent: the request was rejected"

IdleInvocation ==
    [pc |-> "idle", module |-> "none", kind |-> "none", credential |-> None, ai |-> None,
     originalImage |-> NoFile, prompt |-> <<>>, readResult |-> None, request |-> None,
     received |-> None, outcome |-> Pending, steps |-> <<>>]

\* The prompt templates of services/geminiService.ts (literals shortened).
editPrompt(userPrompt, hotspot) ==
    <<"You are an expert photo editor AI. [...] User Request: \"">> \o userPrompt
        \o <<"\" Edit Location: Focus on the area around pixel coordinates (x: ",
             ToString(hotspot.x), ", y: ", ToString(hotspot.y),
             "). [...] Output: Return ONLY the final edited image. Do not return text.">>

filterPrompt(prompt) ==
    <<"You are an expert photo editor AI. [...] Filter Request: \"">> \o prompt
        \o <<"\" [...] Output: Return ONLY the final filtered image. Do not return text.">>

adjustmentPrompt(prompt) ==
    <<"You are an expert photo editor AI. [...] User Request: \"">> \o prompt
        \o <<"\" [...] Output: Return ONLY the final adjusted image. Do not return text.">>

\* The prompt templates of the copy in components/ApiKeyModal.tsx.
editPromptLocalized(userPrompt, hotspot) ==
    <<"Você é uma IA especialista em edição de fotos. [...] Solicitação do Usuário: \"">>
        \o userPrompt
        \o <<"\" Local da Edição: Foque na área ao redor das coordenadas de pixel (x: ",
             ToString(hotspot.x), ", y: ", ToString(hotspot.y),
             "). [...] Saída: Retorne APENAS a imagem final editada. Não retorne texto.">>

filterPromptLocalized(prompt) ==
    <<"Você é uma IA especialista em edição de fotos. [...] Solicitação de Filtro: \"">> \o prompt
        \o <<"\" [...] Saída: Retorne APENAS a imagem final filtrada. Não retorne texto.">>

adjustmentPromptLocalized(prompt) ==
    <<"Você é uma IA especialista em edição de fotos. [...] Solicitação do Usuário: \"">> \o prompt
        \o <<"\" [...] Saída: Retorne APENAS a imagem final ajustada. Não retorne texto.">>

Fail(i, error) ==
    inv' = [inv EXCEPT ![i].pc = "done", ![i].outcome = Throw(error)]

\* services/geminiService.ts, up to 'await fileToPart(originalImage)': the
\* credential check, the client, and the read that fileToPart starts.
Begin(i, kind, apiKey, originalImage, prompt) ==
    /\ inv[i].pc = "idle"
    /\ IF ~Truthy(apiKey)
       THEN inv' = [inv EXCEPT ![i] =
                [IdleInvocation EXCEPT !.pc = "done", !.module = "service", !.kind = kind,
                                       !.credential = apiKey, !.originalImage = originalImage,
                                       !.prompt = prompt,
                                       !.outcome = Throw(<<MissingKeyText>>)]]
       ELSE inv' = [inv EXCEPT ![i] =
                [IdleInvocation EXCEPT !.pc = "reading", !.module = "service", !.kind = kind,
                                       !.credential = apiKey, !.ai = Some([apiKey |-> apiKey]),
                                       !.originalImage = originalImage, !.prompt = prompt,
                                       !.steps = <<"credential", "client", "read">>]]
    /\ UNCHANGED <<envKey, encoderVars, interpreterVars>>

\* components/ApiKeyModal.tsx, up to 'await fileToPart(originalImage)': the
\* client is built from process.env.API_KEY with no check of it.  What the
\* GoogleGenAI constructor does with an absent key is the library's choice:
\* it throws or it builds the client.
BeginLocalized(i, kind, originalImage, prompt) ==
    /\ inv[i].pc = "idle"
    /\ \E throws \in (IF Truthy(envKey) THEN {FALSE} ELSE {FALSE, TRUE}) :
          IF throws
          THEN inv' = [inv EXCEPT ![i] =
                   [IdleInvocation EXCEPT !.pc = "done", !.module = "localized", !.kind = kind,
                                          !.credential = envKey, !.originalImage = originalImage,
                                          !.prompt = prompt,
                                          !.outcome = Throw(<<ClientErrorText>>)]]
          ELSE inv' = [inv EXCEPT ![i] =
                   [IdleInvocation EXCEPT !.pc = "reading", !.module = "localized", !.kind = kind,
                                          !.credential = envKey, !.ai = Some([apiKey |-> envKey]),
                                          !.originalImage = originalImage, !.prompt = prompt,
                                          !.steps = <<"client", "read">>]]
    /\ UNCHANGED <<envKey, encoderVars, interpreterVars>>

generateEditedImage(i, apiKey, originalImage, userPrompt, hotspot) ==
    Begin(i, "edit", apiKey, originalImage, editPrompt(userPrompt, hotspot))

generateFilteredImage(i, apiKey, originalImage, prompt) ==
    Begin(i, "filter", apiKey, originalImage, filterPrompt(prompt))

generateAdjustedImage(i, apiKey, originalImage, prompt) ==
    Begin(i, "adjustment", apiKey, originalImage, adjustmentPrompt(prompt))

generateEditedImageLocalized(i, originalImage, userPrompt, hotspot) ==
    BeginLocalized(i, "edit", originalImage, editPromptLocalized(userPrompt, hotspot))

generateFilteredImageLocalized(i, originalImage, prompt) ==
    BeginLocalized(i, "filter", originalImage, filterPromptLocalized(prompt))

generateAdjustedImageLocalized(i, originalImage, prompt) ==
    BeginLocalized(i, "adjustment", originalImage, adjustmentPromptLocalized(prompt))

\* The key the request is sent with: that of the client built at the call.
RequestKeyFromEnv(i) == envKey

RequestKey(i) == Get(inv[i].ai).apiKey

\* reader.onload: fileToPart finishes; on success the prompt is joined to the
\* image part and ai.models.generateContent is called.
FileLoaded(i, url) ==
    /\ inv[i].pc = "reading"
    /\ LET part == fileToPart(url)
       IN  IF part.tag = "throw"
           THEN inv' = [inv EXCEPT ![i].pc = "done", ![i].readResult = Some(url),
                                   ![i].outcome = part]
           ELSE inv' = [inv EXCEPT
                    ![i].pc = "requesting",
                    ![i].readResult = Some(url),
                    ![i].request = Some([apiKey |-> RequestKey(i), model |-> ModelId,
                                         parts |-> <<part.value, [text |-> inv[i].prompt]>>]),
                    ![i].steps = inv[i].steps \o <<"encoded", "call">>]
    /\ UNCHANGED <<envKey, encoderVars, interpreterVars>>

\* reader.onerror: the promise rejects and the operation rejects with it.
FileReadFailed(i) ==
    /\ inv[i].pc = "reading"
    /\ Fail(i, <<ReadErrorText>>)
    /\ UNCHANGED <<envKey, encoderVars, interpreterVars>>

\* The request resolves: return handleApiResponse(response, <kind>).
ResponseReceived(i, resp) ==
    /\ inv[i].pc = "requesting"
    /\ inv' = [inv EXCEPT ![i].pc = "done",
                          ![i].received = Some(resp),
                          ![i].outcome = handleApiResponse(resp, inv[i].kind),
                          ![i].steps = inv[i].steps \o <<"response", "interpret">>]
    /\ UNCHANGED <<envKey, encoderVars, interpreterVars>>

\* The request rejects and the operation rejects with it.
RequestFailed(i) ==
    /\ inv[i].pc = "requesting"
    /\ Fail(i, <<RequestErrorText>>)
    /\ UNCHANGED <<envKey, encoderVars, interpreterVars>>

\* The caller has taken the settled promise.
Settled(i) ==
    /\ inv[i].pc = "done"
    /\ inv' = [inv EXCEPT ![i] = IdleInvocation]
    /\ UNCHANGED <<envKey, encoderVars, interpreterVars>>

\* ApiKeyModal.handleSave: a key that is not blank is trimmed and handed to
\* onSave.
handleSave(apiKey) ==
    /\ Trim(apiKey) # <<>>
    /\ envKey' = Some(Trim(apiKey))
    /\ UNCHANGED <<inv, encoderVars, interpreterVars>>

\* The inputs of the operations.
ApiKeys == {<<"k">>, <<"q">>}
ApiKeyArgs == {None, Some(<<>>), Some(<<"k">>)}
KeyInputs == {<<>>, <<" ">>, <<"k">>, <<" ", "q", " ">>}
UserPrompts == {<<"p">>}
Hotspots == {[x |-> 3, y |-> 4]}
Image == [type |-> <<"i">>, bytes |-> <<77>>]
OpFiles == {Image, [type |-> <<>>, bytes |-> <<77>>]}

ImageCandidate(mimeType, data) ==
    [content |-> Some([parts |-> Some(<<[inlineData |-> Some([mimeType |-> mimeType, data |-> data]),
                                        text |-> None]>>)]),
     finishReason |-> Some(<<"STOP">>)]

EmptyCandidate(reason) == [content |-> None, finishReason |-> reason]

ResponseOf(pf, cands, text) == [promptFeedback |-> pf, candidates |-> Some(cands), text |-> text]

ImageResponse == ResponseOf(None, <<ImageCandidate(Some(<<"i", "/", "p">>), Some(<<"Q", "Q", "=", "=">>))>>, None)
TextResponse == ResponseOf(None, <<EmptyCandidate(Some(<<"STOP">>))>>, Some(<<"a">>))

OpResponses ==
    {ImageResponse, TextResponse,
     ResponseOf(None, <<ImageCandidate(None, Some(<<"Q", "Q", "=", "=">>))>>, None),
     ResponseOf(None, <<ImageCandidate(Some(<<"i", "/", "p">>), None)>>, None),
     ResponseOf(None, <<EmptyCandidate(Some(<<"SAFETY">>))>>, None),
     ResponseOf(None, <<EmptyCandidate(None),
                        ImageCandidate(Some(<<"i", "/", "j">>), Some(<<"Q", "Q", "=", "=">>))>>, None),
     ResponseOf(Some([blockReason |-> Some(<<"SAFETY">>), blockReasonMessage |-> None]),
                <<ImageCandidate(Some(<<"i", "/", "p">>), Some(<<"Q", "Q", "=", "=">>))>>, None)}

\* index.tsx: process.env.API_KEY is the key saved in the session, if any.
OpsInit ==
    /\ envKey \in {None} \cup {Some(k) : k \in ApiKeys}
    /\ inv = [i \in 1..NumInv |-> IdleInvocation]

-----------------------------------------------------------------------------
\* The encoder alone: a file is read, fileToPart runs on the result.

EncoderIdle ==
    /\ file = NoFile
    /\ dataUrl = None
    /\ originalImagePart = Pending

InterpreterIdle ==
    /\ response = NoResponse
    /\ context = "edit"
    /\ returned = Pending

OpsIdle ==
    /\ envKey = None
    /\ inv = [i \in 1..NumInv |-> IdleInvocation]

\* reader.onload with the data URL of the file.
ReaderOnLoad ==
    /\ dataUrl = None
    /\ \E f \in Files :
          /\ file' = f
          /\ dataUrl' = Some(ReadAsDataURL(f))
    /\ UNCHANGED <<originalImagePart, opVars, interpreterVars>>

\* reader.onload with a result of any other shape.
ReaderOnLoadOther ==
    /\ dataUrl = None
    /\ \E u \in SeqsUpTo(UrlChars, MaxUrlLen) : dataUrl' = Some(u)
    /\ UNCHANGED <<file, originalImagePart, opVars, interpreterVars>>

FileToPartStep ==
    /\ IsSome(dataUrl)
    /\ originalImagePart = Pending
    /\ originalImagePart' = fileToPart(Get(dataUrl))
    /\ UNCHANGED <<file, dataUrl, opVars, interpreterVars>>

EncoderInit == EncoderIdle /\ InterpreterIdle /\ OpsIdle

EncoderNext == ReaderOnLoad \/ ReaderOnLoadOther \/ FileToPartStep

SpecEncoder == EncoderInit /\ [][EncoderNext]_vars

-----------------------------------------------------------------------------
\* The interpreter alone: handleApiResponse on every response and context tag.

InterpreterInit ==
    /\ response \in Responses
    /\ context = "edit"
    /\ returned = Pending
    /\ EncoderIdle
    /\ OpsIdle

HandleApiResponseStep ==
    /\ returned = Pending
    /\ \E ctx \in Contexts :
          /\ context' = ctx
          /\ returned' = handleApiResponse(response, ctx)
    /\ UNCHANGED <<response, opVars, encoderVars>>

InterpreterNext == HandleApiResponseStep

SpecInterpreter == InterpreterInit /\ [][InterpreterNext]_vars

-----------------------------------------------------------------------------
\* One operation at a time, over every read result and the responses above.

\* What the reader hands back for the file: its data URL, or any other string.
ReadResults(f) == {ReadAsDataURL(f)} \cup SeqsUpTo(UrlChars, MaxUrlLen)

Init == OpsInit /\ EncoderIdle /\ InterpreterIdle

Next ==
    \/ \E k \in ApiKeyArgs, f \in OpFiles, p \in UserPrompts, h \in Hotspots :
          generateEditedImage(1, k, f, p, h)
    \/ \E k \in ApiKeyArgs, f \in OpFiles, p \in UserPrompts : generateFilteredImage(1, k, f, p)
    \/ \E k \in ApiKeyArgs, f \in OpFiles, p \in UserPrompts : generateAdjustedImage(1, k, f, p)
    \/ \E f \in OpFiles, p \in UserPrompts, h \in Hotspots :
          generateEditedImageLocalized(1, f, p, h)
    \/ \E f \in OpFiles, p \in UserPrompts : generateFilteredImageLocalized(1, f, p)
    \/ \E f \in OpFiles, p \in UserPrompts : generateAdjustedImageLocalized(1, f, p)
    \/ \E u \in ReadResults(inv[1].originalImage) : FileLoaded(1, u)
    \/ FileReadFailed(1)
    \/ \E r \in OpResponses : ResponseReceived(1, r)
    \/ RequestFailed(1)
    \/ Settled(1)
    \/ \E a \in KeyInputs : handleSave(a)

Spec == Init /\ [][Next]_vars

\* NumInv operations in flight at once, interleaved with each other and with
\* updates of the key; every read and every request succeeds.
ConcNext ==
    \/ \E i \in 1..NumInv :
          \/ \E p \in UserPrompts, h \in Hotspots :
                generateEditedImage(i, Some(<<"k">>), Image, p, h)
          \/ \E p \in UserPrompts : generateFilteredImage(i, Some(<<"k">>), Image, p)
          \/ \E p \in UserPrompts : generateAdjustedImage(i, Some(<<"k">>), Image, p)
          \/ \E p \in UserPrompts, h \in Hotspots : generateEditedImageLocalized(i, Image, p, h)
          \/ \E p \in UserPrompts : generateFilteredImageLocalized(i, Image, p)
          \/ \E p \in UserPrompts : generateAdjustedImageLocalized(i, Image, p)
          \/ FileLoaded(i, ReadAsDataURL(inv[i].originalImage))
          \/ \E r \in {ImageResponse, TextResponse} : ResponseReceived(i, r)
          \/ Settled(i)
    \/ \E a \in KeyInputs : handleSave(a)

SpecConc == Init /\ [][ConcNext]_vars

-----------------------------------------------------------------------------
\* The error taxonomy: the source throws plain Errors, told apart by the
\* literal their message starts with.

ErrorKind(r) ==
    IF r.tag # "throw" \/ r.value = <<>> THEN "none"
    ELSE IF Head(r.value) = BlockedText THEN "BlockedRequestError"
    ELSE IF Head(r.value) = StoppedText THEN "GenerationStoppedError"
    ELSE IF Head(r.value) = NoImageText THEN "NoImageReturnedError"
    ELSE "other"

\* sub occurs in s as a contiguous run.
Includes(s, sub) ==
    \E i \in 1..(Len(s) + 1) :
        /\ i + Len(sub) - 1 <= Len(s)
        /\ SubSeq(s, i, i + Len(sub) - 1) = sub

\* The response carries block feedback: a block reason is present.
BlockFeedbackSet(resp) ==
    IsSome(resp.promptFeedback) /\ IsSome(Get(resp.promptFeedback).blockReason)

\* Part n of candidate c of the response holds inline data.
HasInlineAt(resp, c, n) ==
    /\ IsSome(resp.candidates)
    /\ c \in 1..Len(Get(resp.candidates))
    /\ IsSome(Get(resp.candidates)[c].content)
    /\ IsSome(Get(Get(resp.candidates)[c].content).parts)
    /\ n \in 1..Len(Get(Get(Get(resp.candidates)[c].content).parts))
    /\ IsSome(Get(Get(Get(resp.candidates)[c].content).parts)[n].inlineData)

InlineAt(resp, c, n) == Get(Get(Get(Get(resp.candidates)[c].content).parts)[n].inlineData)

CandidateHasImage(resp, c) == \E n \in 1..MaxParts + 1 : HasInlineAt(resp, c, n)

DataUriOf(inlineData) ==
    <<"d", "a", "t", "a", ":">> \o Render(inlineData.mimeType)
        \o <<";", "b", "a", "s", "e", "6", "4", ",">> \o Render(inlineData.data)

\* The finish reason of the response: that of its first candidate.
FinishOf(resp) ==
    IF IsSome(resp.candidates) /\ Get(resp.candidates) # <<>>
    THEN Get(resp.candidates)[1].finishReason
    ELSE None

\* u is t without its leading and trailing white space.
IsTrimOf(u, t) ==
    /\ \E i \in 1..(Len(t) + 1), j \in 0..Len(t) :
          /\ u = SubSeq(t, i, j)
          /\ \A k \in 1..(i - 1) : t[k] \in WhiteSpace
          /\ \A k \in (j + 1)..Len(t) : t[k] \in WhiteSpace
    /\ u # <<>> => (u[1] \notin WhiteSpace /\ u[Len(u)] \notin WhiteSpace)

Interpreted == returned # Pending

\* C2: a response with block feedback set always fails with
\* BlockedRequestError carrying the block reason and the block message,
\* whatever candidates, finish reason and text it holds.
C2_BlockedFirst ==
    (Interpreted /\ BlockFeedbackSet(response)) =>
        /\ ErrorKind(returned) = "BlockedRequestError"
        /\ Includes(returned.value, Get(Get(response.promptFeedback).blockReason))
        /\ IsSome(Get(response.promptFeedback).blockReasonMessage) =>
              Includes(returned.value, Get(Get(response.promptFeedback).blockReasonMessage))

C2_Witness ==
    /\ Interpreted
    /\ BlockFeedbackSet(response)
    /\ IsSome(Get(response.promptFeedback).blockReasonMessage)
    /\ HasInlineAt(response, 1, 1)
    /\ ErrorKind(returned) = "BlockedRequestError"

\* C3 as stated: with no block feedback, an image in any candidate is returned
\* as the data URI of that candidate's MIME type and data.
C3_AnyCandidate ==
    (Interpreted /\ ~BlockFeedbackSet(response)
        /\ \E c \in 1..MaxCandidates + 1 : CandidateHasImage(response, c)) =>
        /\ returned.tag = "return"
        /\ \E c \in 1..MaxCandidates + 1, n \in 1..MaxParts + 1 :
              /\ HasInlineAt(response, c, n)
              /\ returned.value = DataUriOf(InlineAt(response, c, n))

\* C3 amended: with no block feedback and an inline-data part in the FIRST
\* candidate, the data URI of the first such part is returned, whatever the
\* finish reason is.
C3_FirstCandidateImage ==
    (Interpreted /\ ~BlockFeedbackSet(response) /\ CandidateHasImage(response, 1)) =>
        /\ returned.tag = "return"
        /\ \E n \in 1..MaxParts + 1 :
              /\ HasInlineAt(response, 1, n)
              /\ \A m \in 1..(n - 1) : ~HasInlineAt(response, 1, m)
              /\ returned.value = DataUriOf(InlineAt(response, 1, n))

C3_Witness ==
    /\ Interpreted
    /\ ~BlockFeedbackSet(response)
    /\ HasInlineAt(response, 1, 1)
    /\ HasInlineAt(response, 1, 2)
    /\ InlineAt(response, 1, 1) # InlineAt(response, 1, 2)
    /\ FinishOf(response) = Some(<<"SAFETY">>)
    /\ returned = Return(<<"d", "a", "t", "a", ":", "i", "/", "p",
                           ";", "b", "a", "s", "e", "6", "4", ",", "Q", "Q", "=", "=">>)

\* C4: no block feedback, no image part, a finish reason present and not
\* STOP: GenerationStoppedError whose message carries that finish reason,
\* whatever the text is.
C4_AbnormalFinish ==
    (Interpreted /\ ~BlockFeedbackSet(response) /\ ~CandidateHasImage(response, 1)
        /\ IsSome(FinishOf(response)) /\ FinishOf(response) # Some(<<"STOP">>)) =>
        /\ ErrorKind(returned) = "GenerationStoppedError"
        /\ Includes(returned.value, <<" parou inesperadamente. Motivo: ">> \o Get(FinishOf(response)))

C4_Witness ==
    /\ Interpreted
    /\ ~BlockFeedbackSet(response)
    /\ ~CandidateHasImage(response, 1)
    /\ FinishOf(response) = Some(<<"SAFETY">>)
    /\ response.text = Some(<<"a">>)
    /\ ErrorKind(returned) = "GenerationStoppedError"

\* C5: no block feedback, no image part, finish reason STOP or absent:
\* NoImageReturnedError; its message includes the trimmed text when that is
\* non-empty, and the generic explanation when the text is absent or blank.
C5_NoImage ==
    (Interpreted /\ ~BlockFeedbackSet(response) /\ ~CandidateHasImage(response, 1)
        /\ FinishOf(response) \in {None, Some(<<"STOP">>)}) =>
        /\ ErrorKind(returned) = "NoImageReturnedError"
        /\ IF IsSome(response.text) /\ ~IsTrimOf(<<>>, Get(response.text))
           THEN /\ \E u \in SeqsUpTo(TextChars, MaxTextLen + 1) :
                      /\ IsTrimOf(u, Get(response.text))
                      /\ Includes(returned.value, <<"\"">> \o u \o <<"\"">>)
                /\ ~Includes(returned.value, <<GenericText>>)
           ELSE returned.value[Len(returned.value)] = GenericText

C5_Witness ==
    /\ Interpreted
    /\ ~BlockFeedbackSet(response)
    /\ ~CandidateHasImage(response, 1)
    /\ FinishOf(response) = Some(<<"STOP">>)
    /\ response.text = Some(<<" ", "a">>)
    /\ returned.value[Len(returned.value) - 1] = <<"a">>[1]
    /\ ErrorKind(returned) = "NoImageReturnedError"

C5_WitnessGeneric ==
    /\ Interpreted
    /\ response.text = Some(<<" ", " ">>)
    /\ ErrorKind(returned) = "NoImageReturnedError"

-----------------------------------------------------------------------------
\* Claims about the operations.

Has(steps, step) == \E n \in 1..Len(steps) : steps[n] = step

Count(steps, step) == Cardinality({n \in 1..Len(steps) : steps[n] = step})

\* Every occurrence of 'later' in steps has an occurrence of 'earlier' before it.
Before(steps, earlier, later) ==
    \A n \in 1..Len(steps) : steps[n] = later => \E m \in 1..(n - 1) : steps[m] = earlier

Started(i) == inv[i].pc # "idle"

\* The credential the call was made with is empty or absent.
NoCredential(i) == inv[i].credential \in {None, Some(<<>>)}

\* C1: a call made with an empty or absent credential fails with
\* MissingCredentialError, and issues no file read and no network call, in
\* both modules that export the operations.
C1_MissingCredential ==
    \A i \in 1..NumInv :
        (Started(i) /\ NoCredential(i)) =>
            /\ inv[i].pc = "done"
            /\ inv[i].outcome = Throw(<<MissingKeyText>>)
            /\ ~Has(inv[i].steps, "read")
            /\ ~Has(inv[i].steps, "call")

\* The part of the data URL before its first comma (all of it if there is none).
RECURSIVE UpToComma(_)
UpToComma(u) == IF u = <<>> \/ Head(u) = "," THEN <<>> ELSE <<Head(u)>> \o UpToComma(Tail(u))

\* s holds a ':<mime>;' segment with a non-empty mime on one line.
HasMimeSegment(s) ==
    \E a \in 1..Len(s), b \in 1..Len(s) :
        /\ a + 1 < b
        /\ s[a] = ":"
        /\ s[b] = ";"
        /\ \A k \in (a + 1)..(b - 1) : s[k] \notin {";", "\n"}

Malformed(u) == (\A k \in 1..Len(u) : u[k] # ",") \/ ~HasMimeSegment(UpToComma(u))

DecodingError(r) ==
    /\ r.tag = "throw"
    /\ r.value \in {<<"URL de dados inválida">>,
                    <<"Não foi possível extrair o tipo MIME da URL de dados">>}

\* C6: when the read hands back a data URL with no comma, or whose prefix
\* holds no ':<non-empty mime>;' segment, the operation has failed with a
\* DecodingError and has issued no network call.
C6_MalformedNeverSent ==
    \A i \in 1..NumInv :
        (IsSome(inv[i].readResult) /\ Malformed(Get(inv[i].readResult))) =>
            /\ inv[i].pc = "done"
            /\ DecodingError(inv[i].outcome)
            /\ ~Has(inv[i].steps, "call")
            /\ inv[i].request = None

C6_Witness ==
    \E i \in 1..NumInv :
        /\ inv[i].pc = "done"
        /\ inv[i].readResult = Some(<<":", ";", ",">>)
        /\ inv[i].outcome = Throw(<<"Não foi possível extrair o tipo MIME da URL de dados">>)
        /\ inv[i].steps[Len(inv[i].steps)] = "read"

C6_WitnessNoComma ==
    \E i \in 1..NumInv :
        /\ inv[i].pc = "done"
        /\ inv[i].readResult = Some(<<":", "d", ";">>)
        /\ inv[i].outcome = Throw(<<"URL de dados inválida">>)

\* C8: at most one network call; it follows a passed credential check and a
\* finished encoding; the interpreter runs after the response; a failed
\* operation is over.
C8_SingleOrderedCall ==
    \A i \in 1..NumInv :
        /\ Count(inv[i].steps, "call") <= 1
        /\ Has(inv[i].steps, "call") => Truthy(inv[i].credential)
        /\ Before(inv[i].steps, "encoded", "call")
        /\ Before(inv[i].steps, "read", "encoded")
        /\ Before(inv[i].steps, "call", "response")
        /\ Before(inv[i].steps, "response", "interpret")
        /\ inv[i].outcome.tag = "throw" => inv[i].pc = "done"

\* C9: a successful result is 'data:<mimeType>;base64,<data>' with the MIME
\* type and the data both present in one inline-data part of the response.
C9_NoPartialResult ==
    \A i \in 1..NumInv :
        (inv[i].pc = "done" /\ inv[i].outcome.tag = "return") =>
            \E c \in 1..MaxCandidates + 1, n \in 1..MaxParts + 1 :
                /\ HasInlineAt(Get(inv[i].received), c, n)
                /\ IsSome(InlineAt(Get(inv[i].received), c, n).mimeType)
                /\ IsSome(InlineAt(Get(inv[i].received), c, n).data)
                /\ inv[i].outcome.value =
                       <<"d", "a", "t", "a", ":">>
                           \o Get(InlineAt(Get(inv[i].received), c, n).mimeType)
                           \o <<";", "b", "a", "s", "e", "6", "4", ",">>
                           \o Get(InlineAt(Get(inv[i].received), c, n).data)

\* The request in flight is made of what the invocation was called with and
\* of what its own read handed back.
OwnRequest(i) ==
    IsSome(inv[i].request) =>
        /\ Get(inv[i].request).apiKey = inv[i].credential
        /\ IsSome(inv[i].readResult)
        /\ Get(inv[i].request).parts[1] = fileToPart(Get(inv[i].readResult)).value
        /\ Get(inv[i].request).parts[2] = [text |-> inv[i].prompt]

\* What the invocation settles with is decided by what it was called with,
\* what its own read handed back and the response to its own request.
OwnOutcome(i) ==
    inv[i].pc = "done" =>
        IF IsSome(inv[i].received)
        THEN /\ IsSome(inv[i].request)
             /\ inv[i].outcome = handleApiResponse(Get(inv[i].received), inv[i].kind)
        ELSE IF IsSome(inv[i].request) THEN inv[i].outcome = Throw(<<RequestErrorText>>)
        ELSE IF IsSome(inv[i].readResult)
        THEN inv[i].outcome = fileToPart(Get(inv[i].readResult))
        ELSE IF inv[i].module = "service" /\ ~Truthy(inv[i].credential)
        THEN inv[i].outcome = Throw(<<MissingKeyText>>)
        ELSE inv[i].outcome \in {Throw(<<ReadErrorText>>), Throw(<<ClientErrorText>>)}

-----------------------------------------------------------------------------
\* Claims about the encoder.

Encoded == originalImagePart # Pending /\ dataUrl = Some(ReadAsDataURL(file))

RoundTrips ==
    /\ originalImagePart.tag = "return"
    /\ originalImagePart.value.inlineData.mimeType = file.type
    /\ originalImagePart.value.inlineData.data = Base64Encode(file.bytes)
    /\ Base64Decode(originalImagePart.value.inlineData.data) = file.bytes

\* C7 as stated: the payload of every file has the declared MIME type and the
\* whole base64 body, for every declared type, also one holding ',' or ';' and
\* the empty one.
C7_RoundTripAnyType == Encoded => RoundTrips

\* C7 amended: the same for every declared type that is not empty and holds
\* neither ',' nor ';'.
C7_RoundTrip ==
    (Encoded /\ file.type # <<>> /\ \A k \in 1..Len(file.type) : file.type[k] \notin {",", ";"})
        => RoundTrips

C7_Witness ==
    /\ Encoded
    /\ file = [type |-> <<"i", ":">>, bytes |-> <<77, 255>>]
    /\ originalImagePart =
           Return([inlineData |-> [mimeType |-> <<"i", ":">>, data |-> <<"T", "f", "8", "=">>]])

-----------------------------------------------------------------------------
\* Claims about the order of the checks of the interpreter.

\* The outcome of a call: the image, or the kind of the error.
OutcomeOf(r) == IF r.tag = "return" THEN "Image" ELSE ErrorKind(r)

\* The first check that matches, in the order block / image / abnormal
\* finish / no image; the context tag is no part of it.
FirstMatch(resp) ==
    IF BlockFeedbackSet(resp) THEN "BlockedRequestError"
    ELSE IF CandidateHasImage(resp, 1) THEN "Image"
    ELSE IF IsSome(FinishOf(resp)) /\ FinishOf(resp) # Some(<<"STOP">>)
    THEN "GenerationStoppedError"
    ELSE "NoImageReturnedError"

\* The words the context tag stands for in an error text.
ContextWords(ctx) ==
    IF ctx = "edit" THEN <<"edição">>
    ELSE IF ctx = "filter" THEN <<"filtro">>
    ELSE IF ctx = "adjustment" THEN <<"ajuste">>
    ELSE <<ctx>>

\* C11: handleApiResponse is total: for every response and every context tag
\* it ends in exactly one of the four errors or the image, the one of the
\* first check that matches in the order block / image / abnormal finish /
\* no image; the context tag changes the error text only (the errors of the
\* last two checks name it), never the outcome.
C11_TotalOrdered ==
    Interpreted =>
        /\ returned.tag \in {"return", "throw"}
        /\ OutcomeOf(returned) \in {"BlockedRequestError", "Image", "GenerationStoppedError",
                                    "NoImageReturnedError"}
        /\ OutcomeOf(returned) = FirstMatch(response)
        /\ OutcomeOf(returned) \in {"GenerationStoppedError", "NoImageReturnedError"} =>
              returned.value[2] = ContextWords(context)[1]
        /\ OutcomeOf(returned) = "Image" =>
              SubSeq(returned.value, 1, 5) = <<"d", "a", "t", "a", ":">>

C11_Witness ==
    /\ Interpreted
    /\ context = "other"
    /\ ~BlockFeedbackSet(response)
    /\ ~CandidateHasImage(response, 1)
    /\ FinishOf(response) = Some(<<"SAFETY">>)
    /\ response.text = Some(<<"a", "a">>)
    /\ OutcomeOf(returned) = "GenerationStoppedError"
    /\ returned.value[2] = "other"

\* C12: the image check and the finish-reason check look at the first
\* candidate only.  A returned image is the first part, in part order, of the
\* first candidate that holds inline data.  A response whose first candidate
\* holds no inline-data part never yields an image, also when a later
\* candidate holds one: past the block check, it fails as the finish reason
\* of the first candidate and the text of the response decide.
C12_FirstCandidateOnly ==
    Interpreted =>
        /\ returned.tag = "return" =>
              \E n \in 1..MaxParts + 1 :
                  /\ HasInlineAt(response, 1, n)
                  /\ \A m \in 1..(n - 1) : ~HasInlineAt(response, 1, m)
                  /\ returned.value = DataUriOf(InlineAt(response, 1, n))
        /\ ~CandidateHasImage(response, 1) =>
              /\ returned.tag = "throw"
              /\ ~BlockFeedbackSet(response) =>
                    IF IsSome(FinishOf(response)) /\ FinishOf(response) # Some(<<"STOP">>)
                    THEN /\ ErrorKind(returned) = "GenerationStoppedError"
                         /\ Includes(returned.value, Get(FinishOf(response)))
                    ELSE /\ ErrorKind(returned) = "NoImageReturnedError"
                         /\ IF IsSome(response.text) /\ ~IsTrimOf(<<>>, Get(response.text))
                            THEN ~Includes(returned.value, <<GenericText>>)
                            ELSE Includes(returned.value, <<GenericText>>)

C12_Witness ==
    /\ Interpreted
    /\ ~BlockFeedbackSet(response)
    /\ ~CandidateHasImage(response, 1)
    /\ CandidateHasImage(response, 2)
    /\ FinishOf(response) = None
    /\ response.text = Some(<<"a">>)
    /\ ErrorKind(returned) = "NoImageReturnedError"
    /\ Includes(returned.value, <<"\"", "a", "\"">>)

====
